---- MODULE Spec2Model ----
(***************************************************************************)
(* Model of the YouTube compliance analyzer: the start-up of app.py (the   *)
(* import of youtube_analyzer_crew and the credential loading), one        *)
(* analysis request of main() (acquisition, transcription, crew run,       *)
(* rendering, cleanup) and the Streamlit rerun that follows it.            *)
(***************************************************************************)
EXTENDS Naturals, Sequences, FiniteSets

VARIABLES
    pc,             \* position of the script
    env,            \* keys set (non-empty) in os.environ
    secrets,        \* keys present in st.secrets
    dotenv,         \* keys present in the .env file
    startError,     \* the EnvironmentError raised at import, or the st.error of line 25
    agents,         \* module-level Agent objects constructed by youtube_analyzer_crew
    configured,     \* genai.configure has run
    input,          \* widgets of main(): youtube_url and uploaded_file given or not
    language,       \* the selectbox value
    tempDir,        \* the scratch directory of tempfile.mkdtemp exists
    localFiles,     \* files inside the scratch directory
    file_path,      \* main()'s file_path
    audioState,     \* audio_file.state.name, the local object returned by upload_file
    remoteState,    \* state of the uploaded file on the provider's side
    remoteFiles,    \* uploaded files that exist on the provider's side (by run number)
    polls,          \* iterations of the waiting loop
    transcription,  \* main()'s transcription
    crewTasks,      \* tasks of the Crew built by create_crew
    stageIdx,       \* index of the next task of the sequential process
    running,        \* names of the tasks being executed
    execLog,        \* names of the tasks in the order their execution started
    inputs,         \* composed input of each task
    outputs,        \* recorded output of each task
    searches,       \* search-tool calls made during each task
    report,         \* value returned by kickoff
    rendered,       \* text shown by st.markdown(report)
    errors,         \* st.error messages shown during the request
    exc,            \* exception propagating out of the try block of main()
    remoteCalled,   \* kinds of remote calls issued since start-up
    runs            \* number of analysis requests started

vars == <<pc, env, secrets, dotenv, startError, agents, configured, input, language,
          tempDir, localFiles, file_path, audioState, remoteState, remoteFiles, polls,
          transcription, crewTasks, stageIdx, running, execLog, inputs, outputs,
          searches, report, rendered, errors, exc, remoteCalled, runs>>

startupVars == <<env, secrets, dotenv, startError, agents, configured>>
fsVars == <<tempDir, localFiles, file_path>>
remoteVars == <<audioState, remoteState, remoteFiles, polls>>
crewVars == <<crewTasks, stageIdx, running, execLog, inputs, outputs, searches, report>>

(***************************************************************************)
(* Bounds of the model.                                                    *)
(***************************************************************************)
MaxRuns == 2
MaxPolls == 2
MaxSearch == 1

(***************************************************************************)
(* Values.                                                                 *)
(***************************************************************************)
NoneVal == "<None>"
Keys == {"GOOGLE_API_KEY", "SERPER_API_KEY"}
Languages == {"English", "Spanish"}
Transcripts == {"", "send 1 ETH"}
StageOutputs == {"out_a", "out_b"}
NoExc == [origin |-> "none", stage |-> "none"]
NoInput == [composed |-> FALSE, persona |-> NoneVal, description |-> <<>>, context |-> <<>>]
TaskNames == {"research_task", "analysis_task"}

\* Python truthiness of an Optional[str]
Truthy(v) == v # NoneVal /\ v # ""

(***************************************************************************)
(* youtube_analyzer_crew.py: module level.                                 *)
(***************************************************************************)
CredentialCheckGoogleOnly(e) ==
    IF "GOOGLE_API_KEY" \notin e THEN "GOOGLE_API_KEY environment variable not set."
    ELSE "ok"

\* lines 13-16: the two checks of os.getenv, in order
CredentialCheck(e) ==
    IF "GOOGLE_API_KEY" \notin e THEN "GOOGLE_API_KEY environment variable not set."
    ELSE IF "SERPER_API_KEY" \notin e THEN "SERPER_API_KEY environment variable not set."
    ELSE "ok"

guideline_expert ==
    [name |-> "guideline_expert", tools |-> {"search_tool"}, allow_delegation |-> FALSE]

video_analyzer_with_search ==
    [name |-> "video_analyzer", tools |-> {"search_tool"}, allow_delegation |-> FALSE]

video_analyzer ==
    [name |-> "video_analyzer", tools |-> {}, allow_delegation |-> FALSE]

AgentOf(n) == IF n = "guideline_expert" THEN guideline_expert ELSE video_analyzer

research_task(video_language) ==
    [name |-> "research_task",
     description |-> <<"research_task", video_language>>,
     agent |-> "guideline_expert",
     context |-> <<>>]

analysis_task_no_context(video_transcript, video_language) ==
    [name |-> "analysis_task",
     description |-> <<"analysis_task", video_language, video_transcript>>,
     agent |-> "video_analyzer",
     context |-> <<>>]

analysis_task(video_transcript, video_language) ==
    [name |-> "analysis_task",
     description |-> <<"analysis_task", video_language, video_transcript>>,
     agent |-> "video_analyzer",
     context |-> <<"research_task">>]

\* the Crew of lines 135-143: tasks in declared order, Process.sequential
create_crew(video_transcript, video_language) ==
    <<research_task(video_language), analysis_task(video_transcript, video_language)>>

\* an agent may reach the search tool through its own tools, or by delegating
\* to a coworker of the crew that has it
CanSearch(a) ==
    \/ "search_tool" \in a.tools
    \/ a.allow_delegation /\ \E b \in {guideline_expert, video_analyzer} :
           b.name # a.name /\ "search_tool" \in b.tools

\* the input of a task: persona, description and the recorded outputs of the
\* tasks of its context, in order
ComposeInput(task, outs) ==
    [composed |-> TRUE,
     persona |-> task.agent,
     description |-> task.description,
     context |-> [i \in 1..Len(task.context) |-> outs[task.context[i]]]]

(***************************************************************************)
(* State after the interpreter starts app.py.                              *)
(***************************************************************************)
RequestInit ==
    /\ input = [url |-> FALSE, upload |-> FALSE]
    /\ language = "English"
    /\ tempDir = FALSE
    /\ localFiles = {}
    /\ file_path = NoneVal
    /\ audioState = NoneVal
    /\ remoteState = NoneVal
    /\ polls = 0
    /\ transcription = NoneVal
    /\ crewTasks = <<>>
    /\ stageIdx = 0
    /\ running = {}
    /\ execLog = <<>>
    /\ inputs = [n \in TaskNames |-> NoInput]
    /\ outputs = [n \in TaskNames |-> NoneVal]
    /\ searches = [n \in TaskNames |-> 0]
    /\ report = NoneVal
    /\ rendered = NoneVal
    /\ errors = {}
    /\ exc = NoExc

Init ==
    /\ pc = "import"
    /\ env \in SUBSET Keys
    /\ secrets \in SUBSET Keys
    /\ dotenv \in SUBSET Keys
    /\ startError = "none"
    /\ agents = {}
    /\ configured = FALSE
    /\ remoteFiles = {}
    /\ remoteCalled = {}
    /\ runs = 0
    /\ RequestInit

(***************************************************************************)
(* app.py: module level.                                                   *)
(***************************************************************************)
\* line 4: from youtube_analyzer_crew import create_crew, which runs that
\* module's credential check and then builds the LLM, the tool and the agents
ImportCrew ==
    /\ pc = "import"
    /\ IF CredentialCheck(env) = "ok"
       THEN /\ agents' = {guideline_expert.name, video_analyzer.name}
            /\ startError' = startError
            /\ pc' = "load_secrets"
       ELSE /\ startError' = CredentialCheck(env)
            /\ agents' = agents
            /\ pc' = "startup_failed"
    /\ UNCHANGED <<env, secrets, dotenv, configured, input, language, fsVars, remoteVars,
                   transcription, crewVars, rendered, errors, exc, remoteCalled, runs>>

\* lines 13-18: both keys read from st.secrets and copied to os.environ;
\* a missing key raises KeyError before either assignment to os.environ
LoadSecrets ==
    /\ pc = "load_secrets"
    /\ IF Keys \subseteq secrets
       THEN /\ env' = env \cup Keys
            /\ pc' = "configure"
       ELSE /\ env' = env
            /\ pc' = "load_dotenv"
    /\ UNCHANGED <<secrets, dotenv, startError, agents, configured, input, language, fsVars,
                   remoteVars, transcription, crewVars, rendered, errors, exc,
                   remoteCalled, runs>>

\* lines 19-26: load_dotenv (which keeps variables already set), then the
\* check of GOOGLE_API_KEY
LoadDotenv ==
    /\ pc = "load_dotenv"
    /\ env' = env \cup dotenv
    /\ IF "GOOGLE_API_KEY" \in env'
       THEN /\ pc' = "configure"
            /\ startError' = startError
       ELSE /\ pc' = "startup_failed"
            /\ startError' = "GOOGLE_API_KEY not found."
    /\ UNCHANGED <<secrets, dotenv, agents, configured, input, language, fsVars, remoteVars,
                   transcription, crewVars, rendered, errors, exc, remoteCalled, runs>>

\* line 28: genai.configure; the script then runs main()
Configure ==
    /\ pc = "configure"
    /\ configured' = TRUE
    /\ pc' = "main"
    /\ UNCHANGED <<env, secrets, dotenv, startError, agents, input, language, fsVars,
                   remoteVars, transcription, crewVars, rendered, errors, exc,
                   remoteCalled, runs>>

(***************************************************************************)
(* app.py: main(), one analysis request.                                   *)
(***************************************************************************)
\* lines 129-152: the widgets' values, the click on "Analyze Video", the
\* check that an input was given (st.error and st.stop otherwise), mkdtemp
Analyze ==
    /\ pc = "main"
    /\ runs < MaxRuns
    /\ \E u \in BOOLEAN, f \in BOOLEAN, l \in Languages :
        /\ input' = [url |-> u, upload |-> f]
        /\ language' = l
        /\ IF ~u /\ ~f
           THEN /\ errors' = errors \cup {"no_input"}
                /\ tempDir' = tempDir
                /\ pc' = "done"
           ELSE /\ errors' = errors
                /\ tempDir' = TRUE
                /\ pc' = "acquire"
    /\ runs' = runs + 1
    /\ UNCHANGED <<startupVars, localFiles, file_path, remoteVars, transcription, crewVars,
                   rendered, exc, remoteCalled>>

\* lines 155-158 and download_audio_from_youtube (31-69): yt-dlp raises, or
\* returns without the mp3, or produces it; a failed download may leave
\* partial files in the scratch directory
Download ==
    /\ pc = "acquire"
    /\ input.url
    /\ remoteCalled' = remoteCalled \cup {"download"}
    /\ \/ /\ errors' = errors \cup {"download"}
          /\ file_path' = NoneVal
          /\ localFiles' \in {{}, {"audio.part"}}
       \/ /\ errors' = errors \cup {"ytdlp_missing_file"}
          /\ file_path' = NoneVal
          /\ localFiles' \in {{}, {"audio.webm"}}
       \/ /\ errors' = errors
          /\ file_path' = "audio.mp3"
          /\ localFiles' = {"audio.mp3"}
    /\ pc' = "check_file"
    /\ UNCHANGED <<startupVars, input, language, tempDir, remoteVars, transcription,
                   crewVars, rendered, exc, runs>>

\* lines 160-165: the uploaded file is written to the scratch directory; open
\* or write may raise, which no except clause of main() catches
SaveUpload ==
    /\ pc = "acquire"
    /\ ~input.url
    /\ input.upload
    /\ file_path' = "upload.mp4"
    /\ \/ /\ localFiles' = {"upload.mp4"}
          /\ exc' = exc
          /\ pc' = "check_file"
       \/ /\ localFiles' \in {{}, {"upload.mp4"}}
          /\ exc' = [origin |-> "acquisition", stage |-> "none"]
          /\ pc' = "finally"
    /\ UNCHANGED <<startupVars, input, language, tempDir, remoteVars, transcription,
                   crewVars, rendered, errors, remoteCalled, runs>>

\* line 167: if file_path and os.path.exists(file_path)
CheckFile ==
    /\ pc = "check_file"
    /\ pc' = IF file_path # NoneVal /\ file_path \in localFiles THEN "upload" ELSE "finally"
    /\ UNCHANGED <<startupVars, input, language, fsVars, remoteVars, transcription,
                   crewVars, rendered, errors, exc, remoteCalled, runs>>

\* transcribe_video_with_gemini, lines 81-83 and 96-99: genai.upload_file
\* raises (return None, None) or returns the file object in some state
Upload ==
    /\ pc = "upload"
    /\ remoteCalled' = remoteCalled \cup {"upload"}
    /\ \/ /\ errors' = errors \cup {"upload"}
          /\ transcription' = NoneVal
          /\ pc' = "check_transcription"
          /\ UNCHANGED <<audioState, remoteState, remoteFiles>>
       \/ /\ \E s \in {"PROCESSING", "ACTIVE", "FAILED"} :
                /\ audioState' = s
                /\ remoteState' = s
          /\ remoteFiles' = remoteFiles \cup {runs}
          /\ pc' = "poll"
          /\ UNCHANGED <<errors, transcription>>
    /\ UNCHANGED <<startupVars, input, language, fsVars, polls, crewVars, rendered, exc,
                   runs>>

\* the provider finishes processing the uploaded file
RemoteResolve ==
    /\ remoteState = "PROCESSING"
    /\ remoteState' \in {"ACTIVE", "FAILED"}
    /\ UNCHANGED <<pc, startupVars, input, language, fsVars, audioState, remoteFiles, polls,
                   transcription, crewVars, rendered, errors, exc, remoteCalled, runs>>

\* lines 86-88: one iteration of the waiting loop; the condition reads the
\* state of the object upload_file returned, which nothing refreshes
PollWait ==
    /\ pc = "poll"
    /\ audioState = "PROCESSING"
    /\ polls < MaxPolls
    /\ polls' = polls + 1
    /\ UNCHANGED <<pc, startupVars, input, language, fsVars, audioState, remoteState,
                   remoteFiles, transcription, crewVars, rendered, errors, exc,
                   remoteCalled, runs>>

\* lines 86 and 90-95: the loop condition is false; FAILED returns None, None
PollExit ==
    /\ pc = "poll"
    /\ audioState # "PROCESSING"
    /\ IF audioState = "FAILED"
       THEN /\ errors' = errors \cup {"processing_failed"}
            /\ transcription' = NoneVal
            /\ pc' = "check_transcription"
       ELSE /\ errors' = errors
            /\ transcription' = transcription
            /\ pc' = "generate"
    /\ UNCHANGED <<startupVars, input, language, fsVars, remoteVars, crewVars, rendered,
                   exc, remoteCalled, runs>>

\* lines 102-110: generate_content returns the text (possibly empty), or it
\* or response.text raises (return None, None)
Generate ==
    /\ pc = "generate"
    /\ remoteCalled' = remoteCalled \cup {"transcription"}
    /\ \/ /\ transcription' \in Transcripts
          /\ errors' = errors
       \/ /\ transcription' = NoneVal
          /\ errors' = errors \cup {"transcription"}
    /\ pc' = "check_transcription"
    /\ UNCHANGED <<startupVars, input, language, fsVars, remoteVars, crewVars, rendered,
                   exc, runs>>

TranscriptionNotNone(t) == t # NoneVal

\* line 172: if transcription
TranscriptionOk(t) == Truthy(t)

\* lines 170-173 and 193-194
CheckTranscription ==
    /\ pc = "check_transcription"
    /\ IF TranscriptionOk(transcription)
       THEN /\ pc' = "create_crew"
            /\ errors' = errors
       ELSE /\ pc' = "finally"
            /\ errors' = errors \cup {"analysis_cancelled"}
    /\ UNCHANGED <<startupVars, input, language, fsVars, remoteVars, transcription,
                   crewVars, rendered, exc, remoteCalled, runs>>

\* lines 178-181: create_crew returns the Crew, or a constructor raises
CreateCrew ==
    /\ pc = "create_crew"
    /\ \/ /\ crewTasks' = create_crew(transcription, language)
          /\ stageIdx' = 1
          /\ exc' = exc
          /\ pc' = "kickoff"
       \/ /\ exc' = [origin |-> "create_crew", stage |-> "none"]
          /\ pc' = "finally"
          /\ UNCHANGED <<crewTasks, stageIdx>>
    /\ UNCHANGED <<startupVars, input, language, fsVars, remoteVars, transcription,
                   running, execLog, inputs, outputs, searches, report, rendered, errors,
                   remoteCalled, runs>>

(***************************************************************************)
(* app.py line 185: analyzer_crew.kickoff() under Process.sequential: the  *)
(* tasks of the crew one after the other, each given the outputs of the    *)
(* tasks of its context.                                                   *)
(***************************************************************************)
\* the next task starts: its input is composed and its agent's inference
\* call is issued
StageStart ==
    /\ pc = "kickoff"
    /\ running = {}
    /\ stageIdx <= Len(crewTasks)
    /\ LET task == crewTasks[stageIdx] IN
        /\ inputs' = [inputs EXCEPT ![task.name] = ComposeInput(task, outputs)]
        /\ running' = {task.name}
        /\ execLog' = Append(execLog, task.name)
    /\ remoteCalled' = remoteCalled \cup {"inference"}
    /\ UNCHANGED <<pc, startupVars, input, language, fsVars, remoteVars, transcription,
                   crewTasks, stageIdx, outputs, searches, report, rendered, errors, exc,
                   runs>>

\* the model, while generating, calls the search tool its agent can reach
StageSearch ==
    /\ pc = "kickoff"
    /\ \E n \in running :
        /\ CanSearch(AgentOf(crewTasks[stageIdx].agent))
        /\ searches[n] < MaxSearch
        /\ searches' = [searches EXCEPT ![n] = @ + 1]
    /\ remoteCalled' = remoteCalled \cup {"search"}
    /\ UNCHANGED <<pc, startupVars, input, language, fsVars, remoteVars, transcription,
                   crewTasks, stageIdx, running, execLog, inputs, outputs, report,
                   rendered, errors, exc, runs>>

\* the task's inference call returns: its text is recorded under its name
StageFinish ==
    /\ pc = "kickoff"
    /\ \E n \in running, o \in StageOutputs :
        outputs' = [outputs EXCEPT ![n] = o]
    /\ running' = {}
    /\ stageIdx' = stageIdx + 1
    /\ UNCHANGED <<pc, startupVars, input, language, fsVars, remoteVars, transcription,
                   crewTasks, execLog, inputs, searches, report, rendered, errors, exc,
                   remoteCalled, runs>>

\* the task's inference call fails: the exception leaves kickoff. It is the
\* provider's or the library's own exception, which may or may not name the
\* task; neither create_crew nor main() wraps it
StageFail ==
    /\ pc = "kickoff"
    /\ \E n \in running :
        \E s \in {n, "none"} :
            exc' = [origin |-> "inference", stage |-> s]
    /\ running' = {}
    /\ pc' = "finally"
    /\ UNCHANGED <<startupVars, input, language, fsVars, remoteVars, transcription,
                   crewTasks, stageIdx, execLog, inputs, outputs, searches, report,
                   rendered, errors, remoteCalled, runs>>

\* every task has run: kickoff returns the output of the last one
KickoffReturn ==
    /\ pc = "kickoff"
    /\ running = {}
    /\ stageIdx > Len(crewTasks)
    /\ report' = outputs[crewTasks[Len(crewTasks)].name]
    /\ pc' = "render"
    /\ UNCHANGED <<startupVars, input, language, fsVars, remoteVars, transcription,
                   crewTasks, stageIdx, running, execLog, inputs, outputs, searches,
                   rendered, errors, exc, remoteCalled, runs>>

\* lines 187-191: the report and the transcription are shown
Render ==
    /\ pc = "render"
    /\ rendered' = report
    /\ pc' = "finally"
    /\ UNCHANGED <<startupVars, input, language, fsVars, remoteVars, transcription,
                   crewVars, errors, exc, remoteCalled, runs>>

FinallyOnlyWithoutException ==
    /\ pc = "finally"
    /\ IF exc = NoExc
       THEN /\ tempDir' = FALSE
            /\ localFiles' = {}
            /\ pc' = "done"
       ELSE /\ UNCHANGED <<tempDir, localFiles>>
            /\ pc' = "crashed"
    /\ UNCHANGED <<startupVars, input, language, file_path, remoteVars, transcription,
                   crewVars, rendered, errors, exc, remoteCalled, runs>>

\* lines 196-202: the finally clause removes the scratch directory and what
\* it holds; nothing is done about the uploaded remote file; an exception of
\* the try block then leaves main()
Finally ==
    /\ pc = "finally"
    /\ tempDir' = FALSE
    /\ localFiles' = {}
    /\ pc' = IF exc = NoExc THEN "done" ELSE "crashed"
    /\ UNCHANGED <<startupVars, input, language, file_path, remoteVars, transcription,
                   crewVars, rendered, errors, exc, remoteCalled, runs>>

\* the next interaction reruns app.py from the top: the import of line 4 is
\* cached, lines 13-28 run again, and the request's locals are new
Rerun ==
    /\ pc \in {"done", "crashed"}
    /\ runs < MaxRuns
    /\ pc' = "load_secrets"
    /\ input' = [url |-> FALSE, upload |-> FALSE]
    /\ language' = "English"
    /\ tempDir' = tempDir
    /\ localFiles' = localFiles
    /\ file_path' = NoneVal
    /\ audioState' = NoneVal
    /\ remoteState' = NoneVal
    /\ polls' = 0
    /\ transcription' = NoneVal
    /\ crewTasks' = <<>>
    /\ stageIdx' = 0
    /\ running' = {}
    /\ execLog' = <<>>
    /\ inputs' = [n \in TaskNames |-> NoInput]
    /\ outputs' = [n \in TaskNames |-> NoneVal]
    /\ searches' = [n \in TaskNames |-> 0]
    /\ report' = NoneVal
    /\ rendered' = NoneVal
    /\ errors' = {}
    /\ exc' = NoExc
    /\ UNCHANGED <<startupVars, remoteFiles, remoteCalled, runs>>

Next ==
    \/ ImportCrew
    \/ LoadSecrets
    \/ LoadDotenv
    \/ Configure
    \/ Analyze
    \/ Download
    \/ SaveUpload
    \/ CheckFile
    \/ Upload
    \/ RemoteResolve
    \/ PollWait
    \/ PollExit
    \/ Generate
    \/ CheckTranscription
    \/ CreateCrew
    \/ StageStart
    \/ StageSearch
    \/ StageFinish
    \/ StageFail
    \/ KickoffReturn
    \/ Render
    \/ Finally
    \/ Rerun

Spec == Init /\ [][Next]_vars

(***************************************************************************)
(* Properties.                                                             *)
(***************************************************************************)
InRequest ==
    {"acquire", "check_file", "upload", "poll", "generate", "check_transcription",
     "create_crew", "kickoff", "render", "finally"}

Ended == pc \in {"done", "crashed"}

Count(seq, x) == Cardinality({i \in 1..Len(seq) : seq[i] = x})

Started(n) == \E i \in 1..Len(execLog) : execLog[i] = n

IsPrefix(a, b) == Len(a) <= Len(b) /\ \A i \in 1..Len(a) : a[i] = b[i]

DeclaredOrder == <<"research_task", "analysis_task">>

PipelineStarted ==
    \/ pc \in {"create_crew", "kickoff", "render"}
    \/ crewTasks # <<>>
    \/ execLog # <<>>
    \/ report # NoneVal
    \/ rendered # NoneVal
    \/ exc.origin \in {"create_crew", "inference"}

PrePipelineErrors ==
    {"download", "ytdlp_missing_file", "upload", "processing_failed", "transcription"}

\* C1: outside a request in progress (in particular once a request has ended,
\* with a report, after a failed download or transcription, or with an
\* exception of create_crew or kickoff) the scratch directory does not exist
\* and no media file of it is left.
C1_ScratchRemoved ==
    pc \notin InRequest => ~tempDir /\ localFiles = {}

C1_Witness ==
    /\ pc = "crashed"
    /\ exc.origin = "inference"
    /\ file_path = "audio.mp3"
    /\ ~tempDir

\* C2: a key that is configured nowhere (process environment, st.secrets,
\* .env) makes start-up end in a configuration error at the import, with no
\* remote call issued, no agent or task constructed and main() not reached.
C2_MissingKeyFailsStartup ==
    \A k \in Keys :
        k \notin (env \cup secrets \cup dotenv) =>
            /\ pc \in {"import", "startup_failed"}
            /\ pc = "startup_failed" => startError # "none"
            /\ remoteCalled = {}
            /\ agents = {}
            /\ crewTasks = <<>>
            /\ ~configured
            /\ runs = 0

C2_Witness ==
    /\ pc = "startup_failed"
    /\ "GOOGLE_API_KEY" \in env
    /\ "SERPER_API_KEY" \notin (env \cup secrets \cup dotenv)
    /\ startError = "SERPER_API_KEY environment variable not set."

\* C3: in a run of the crew at most one task executes at a time, the tasks
\* start in declared order and none twice, the research task is given no
\* context, the analysis task is given exactly the recorded output of the
\* research task, and when kickoff returns both tasks have run once and the
\* returned value is the analysis task's output.
C3_SequentialContextChain ==
    /\ Cardinality(running) <= 1
    /\ IsPrefix(execLog, DeclaredOrder)
    /\ inputs["research_task"].composed => inputs["research_task"].context = <<>>
    /\ inputs["analysis_task"].composed =>
           /\ outputs["research_task"] \in StageOutputs
           /\ inputs["analysis_task"].context = <<outputs["research_task"]>>
    /\ report # NoneVal =>
           /\ execLog = DeclaredOrder
           /\ report = outputs["analysis_task"]
           /\ report \in StageOutputs

C3_Witness ==
    /\ pc = "render"
    /\ outputs["research_task"] = "out_a"
    /\ inputs["analysis_task"].context = <<"out_a">>
    /\ report = "out_b"

\* C4: when the inference call of stage K fails, no later stage has run, K
\* was started once, no report is returned or rendered, and the failure that
\* reaches the caller names K.
C4_FailureIdentifiesStage ==
    exc.origin = "inference" =>
        LET K == crewTasks[stageIdx].name IN
            /\ \A i \in (stageIdx + 1)..Len(crewTasks) : ~Started(crewTasks[i].name)
            /\ Count(execLog, K) = 1
            /\ report = NoneVal
            /\ rendered = NoneVal
            /\ exc.stage = K

\* C5: the pipeline is started (create_crew, kickoff, a report) only with a
\* local media file and a non-empty transcript, and never after a download,
\* upload, processing or transcription failure.
C5_PipelineNeedsTranscript ==
    /\ PipelineStarted => file_path # NoneVal /\ Truthy(transcription)
    /\ errors \cap PrePipelineErrors # {} => ~PipelineStarted

C5_Witness ==
    /\ pc = "render"
    /\ transcription = "send 1 ETH"
    /\ file_path = "upload.mp4"

\* C6: no failure leaves main() as an uncaught exception, a request never
\* ends with neither a report nor an error message, and a request that
\* showed an error shows no report.
C6_EveryFailureReported ==
    /\ pc # "crashed"
    /\ pc = "done" => rendered # NoneVal \/ errors # {}
    /\ errors # {} => rendered = NoneVal

\* C7: when a request has ended no file it uploaded to the provider remains.
C7_RemoteFilesDeleted ==
    Ended => remoteFiles = {}

\* C8: once the provider has resolved the uploaded file to ready or failed,
\* the next iteration of the waiting loop observes it and leaves the loop.
C8_PollObservesResolution ==
    [][(pc = "poll" /\ remoteState \in {"ACTIVE", "FAILED"}) => pc' # "poll"]_vars

\* C9: every search call is made while the research task, and only it, is
\* executing; none is made during the analysis task or outside a task.
C9_SearchOnlyInResearch ==
    [][(\E n \in TaskNames : searches'[n] > searches[n]) =>
            /\ running = {"research_task"}
            /\ searches'["analysis_task"] = searches["analysis_task"]]_vars

C9_Witness ==
    /\ searches["research_task"] > 0
    /\ "analysis_task" \in running

\* C10: with both keys in st.secrets, start-up does not fail: the keys are
\* in os.environ when the credential check of youtube_analyzer_crew runs.
C10_SecretsReachCheck ==
    Keys \subseteq secrets => pc # "startup_failed"

====
